---- MODULE Spec2Model ----
(***************************************************************************)
(* Model of Binance/Python/poc_binance_V4.py: the interval parser          *)
(* (parse_interval_to_ms), the paginated kline download                    *)
(* (get_binance_klines) and the volume histogram POC (calculate_poc).      *)
(*                                                                         *)
(* Timestamps are integers in milliseconds.  An interval string is a       *)
(* sequence of one-character strings.  In the download a kline is          *)
(* represented by the only field the loop reads, its open time (index 0);  *)
(* in the POC computation by its close price and volume (indices 4, 5).    *)
(* Floating point values of calculate_poc are exact rationals num / den.   *)
(***************************************************************************)
EXTENDS Integers, Sequences, FiniteSets

\* ---------------------------------------------------------------- bounds

\* open times offered by the page provider are 0 .. MaxTick minutes
MaxTick == 2
\* longest page the page provider returns in the model
MaxPageLen == 2
\* requests whose history (calls, pages, klines) is recorded exactly
MaxCalls == 3

\* longest series handed to calculate_poc
MaxLen == 3
\* close prices are 1 .. MaxPrice
MaxPrice == 3
\* volumes are 0 .. MaxVolume
MaxVolume == 1

\* the default of calculate_poc's bins parameter
DefaultBins == 500

\* values of bins tried
BinCounts == {1, 2, 3, 4, 50, DefaultBins}

\* one minute in milliseconds, the grid of the modelled timestamps
MinuteMs == 60000

\* the limit sent with every request
limit == 1000

Times == {k * MinuteMs : k \in 0..MaxTick}

StartTimes == Times

EndTimes == {k * MinuteMs : k \in 0..(MaxTick + 1)}

\* interval strings tried: valid ones, a zero and a negative prefix, an
\* unknown unit, a non-numeric prefix, an empty prefix and the empty string
Intervals ==
    { <<"1", "m">>, <<"2", "m">>, <<"0", "m">>, <<"-", "1", "m">>,
      <<"1", "h">>, <<"1", "d">>, <<"1", "x">>, <<"a", "b", "c">>,
      <<"m">>, << >> }

\* pages the provider may return: at most MaxPageLen klines, each page in
\* ascending order of open time (the order within one response), with no
\* relation assumed between a page and the request it answers
Pages ==
    {p \in UNION {[1..n -> Times] : n \in 0..MaxPageLen} :
        \A i \in 1..(Len(p) - 1) : p[i] < p[i + 1]}

SetMin(S) == CHOOSE x \in S : \A y \in S : x <= y

SetMax(S) == CHOOSE x \in S : \A y \in S : x >= y

\* ------------------------------------------------------- parse_interval

Digits == {"0", "1", "2", "3", "4", "5", "6", "7", "8", "9"}

DigitVal(c) ==
    CASE c = "0" -> 0 [] c = "1" -> 1 [] c = "2" -> 2 [] c = "3" -> 3
      [] c = "4" -> 4 [] c = "5" -> 5 [] c = "6" -> 6 [] c = "7" -> 7
      [] c = "8" -> 8 [] c = "9" -> 9

RECURSIVE DecVal(_)
DecVal(s) ==
    IF s = << >> THEN 0
    ELSE 10 * DecVal(SubSeq(s, 1, Len(s) - 1)) + DigitVal(s[Len(s)])

\* Python's int(str) on the characters modelled: an optional sign followed
\* by one or more decimal digits; anything else raises ValueError.
PyInt(s) ==
    LET signed == Len(s) > 0 /\ s[1] \in {"-", "+"}
        body == IF signed THEN Tail(s) ELSE s
        ok == Len(body) > 0 /\ \A i \in 1..Len(body) : body[i] \in Digits
    IN  IF ~ok THEN [ok |-> FALSE, val |-> 0]
        ELSE [ok |-> TRUE,
              val |-> IF signed /\ s[1] = "-" THEN 0 - DecVal(body)
                      ELSE DecVal(body)]

UnitFactor(unit) ==
    CASE unit = "m" -> 60 * 1000
      [] unit = "h" -> 60 * 60 * 1000
      [] unit = "d" -> 24 * 60 * 60 * 1000
      [] OTHER -> 0

\* interval[-1] raises IndexError on the empty string; int() raises
\* ValueError; an unknown unit raises ValueError.
parse_interval_to_ms(interval) ==
    IF interval = << >> THEN [raised |-> "IndexError", val |-> 0]
    ELSE LET unit == interval[Len(interval)]
             value == PyInt(SubSeq(interval, 1, Len(interval) - 1))
         IN  IF ~value.ok THEN [raised |-> "ValueError", val |-> 0]
             ELSE IF unit \in {"m", "h", "d"}
               THEN [raised |-> "none", val |-> value.val * UnitFactor(unit)]
             ELSE [raised |-> "ValueError", val |-> 0]

\* ------------------------------------------------------------ variables

VARIABLES
    interval,       \* get_binance_klines: the interval string
    start_time,     \* get_binance_klines: start_time
    end_time,       \* get_binance_klines: end_time
    pc,             \* position in get_binance_klines
    interval_ms,    \* local interval_ms
    current_time,   \* local current_time, the pagination cursor
    klines,         \* local klines, the accumulated series
    params,         \* the request in flight
    resp,           \* what requests.get / raise_for_status / json produced
    raised,         \* the exception get_binance_klines ended with
    calls,          \* history: requests issued
    pages,          \* history: the pages returned, with their requests
    overflow,       \* history: more than MaxCalls requests were issued
    poc_klines,     \* calculate_poc: klines
    bins,           \* calculate_poc: bins
    hist,           \* local hist
    edges,          \* local edges
    idx_poc,        \* local idx_poc
    poc,            \* the value calculate_poc returns
    poc_pc          \* position in calculate_poc

fetchVars ==
    <<interval, start_time, end_time, pc, interval_ms, current_time, klines,
      params, resp, raised, calls, pages, overflow>>

pocVars == <<poc_klines, bins, hist, edges, idx_poc, poc, poc_pc>>

vars == <<fetchVars, pocVars>>

NoParams == [startTime |-> 0, endTime |-> 0, limit |-> 0]

NoResp == [kind |-> "none", data |-> << >>]

FetchIdle ==
    /\ pc = "idle"
    /\ interval = << >> /\ start_time = 0 /\ end_time = 0
    /\ interval_ms = 0 /\ current_time = 0 /\ klines = << >>
    /\ params = NoParams /\ resp = NoResp /\ raised = "none"
    /\ calls = 0 /\ pages = << >> /\ overflow = FALSE

PocIdle ==
    /\ poc_pc = "idle"
    /\ poc_klines = << >> /\ bins = 0 /\ hist = << >> /\ edges = << >>
    /\ idx_poc = 0 /\ poc = [num |-> 0, den |-> 1]

\* --------------------------------------------------- get_binance_klines

Init ==
    /\ interval \in Intervals
    /\ start_time \in StartTimes
    /\ end_time \in EndTimes
    /\ pc = "start"
    /\ interval_ms = 0 /\ current_time = 0 /\ klines = << >>
    /\ params = NoParams /\ resp = NoResp /\ raised = "none"
    /\ calls = 0 /\ pages = << >> /\ overflow = FALSE
    /\ PocIdle

\* lines 45-54: klines = [], limit = 1000, interval_ms, current_time
ParseInterval ==
    /\ pc = "start"
    /\ LET r == parse_interval_to_ms(interval)
       IN  IF r.raised = "none"
             THEN /\ interval_ms' = r.val
                  /\ current_time' = start_time
                  /\ pc' = "loop"
                  /\ UNCHANGED raised
             ELSE /\ raised' = r.raised
                  /\ pc' = "raised"
                  /\ UNCHANGED <<interval_ms, current_time>>
    /\ UNCHANGED <<interval, start_time, end_time, klines, params, resp,
                   calls, pages, overflow, pocVars>>

\* lines 55-64: the loop test and the request; line 80 when the test fails.
\* The history is exact for the first MaxCalls requests; from the next one
\* on overflow is set, calls, pages and klines are no longer recorded and
\* only the control state (pc, current_time, params, resp) is followed.
Request ==
    /\ pc = "loop"
    /\ IF current_time < end_time
         THEN /\ params' = [startTime |-> current_time,
                            endTime |-> end_time, limit |-> limit]
              /\ pc' = "await"
              /\ IF overflow \/ calls = MaxCalls
                   THEN /\ overflow' = TRUE
                        /\ calls' = MaxCalls
                        /\ klines' = << >>
                        /\ pages' = << >>
                   ELSE /\ calls' = calls + 1
                        /\ UNCHANGED <<overflow, klines, pages>>
         ELSE /\ pc' = "done"
              /\ UNCHANGED <<params, calls, overflow, klines, pages>>
    /\ UNCHANGED <<interval, start_time, end_time, interval_ms,
                   current_time, resp, raised, pocVars>>

\* the page provider answers the request in flight with a page
ProviderReturns(page) ==
    /\ pc = "await"
    /\ resp' = [kind |-> "ok", data |-> page]
    /\ pages' = IF overflow THEN pages
                ELSE Append(pages, [from |-> params.startTime,
                                    to |-> params.endTime, data |-> page])
    /\ pc' = "got"
    /\ UNCHANGED <<interval, start_time, end_time, interval_ms,
                   current_time, klines, params, raised, calls, overflow,
                   pocVars>>

\* the request fails: a connection error or a 4xx/5xx status
ProviderFails ==
    /\ pc = "await"
    /\ resp' = [kind |-> "fail", data |-> << >>]
    /\ pc' = "got"
    /\ UNCHANGED <<interval, start_time, end_time, interval_ms,
                   current_time, klines, params, raised, calls, pages,
                   overflow, pocVars>>

\* the failure is swallowed and the series gathered so far is returned
OnRequestException_swallowed ==
    /\ pc' = "done"
    /\ UNCHANGED <<klines, current_time, raised>>

\* lines 67-69: the RequestException is raised again
OnRequestException ==
    /\ raised' = "RequestException"
    /\ pc' = "raised"
    /\ UNCHANGED <<klines, current_time>>

\* append in place of extend: only the page's last kline is kept
OnData_append(data) ==
    IF data = << >>
      THEN /\ pc' = "done"
           /\ UNCHANGED <<klines, current_time, raised>>
      ELSE /\ klines' = IF overflow THEN klines
                        ELSE Append(klines, data[Len(data)])
           /\ current_time' = data[Len(data)] + interval_ms
           /\ pc' = "loop"
           /\ UNCHANGED raised

\* lines 71-77: an empty page ends the loop, another one is appended and
\* moves the cursor past its last kline
OnData(data) ==
    IF data = << >>
      THEN /\ pc' = "done"
           /\ UNCHANGED <<klines, current_time, raised>>
      ELSE LET last_kline_timestamp == data[Len(data)]
           IN  /\ klines' = IF overflow THEN klines ELSE klines \o data
               /\ current_time' = last_kline_timestamp + interval_ms
               /\ pc' = "loop"
               /\ UNCHANGED raised

\* lines 63-78: the rest of the loop body once the request has ended
HandleResponse ==
    /\ pc = "got"
    /\ IF resp.kind = "fail" THEN OnRequestException ELSE OnData(resp.data)
    /\ UNCHANGED <<interval, start_time, end_time, interval_ms, params,
                   resp, calls, pages, overflow, pocVars>>

Next ==
    \/ ParseInterval
    \/ Request
    \/ \E page \in Pages : ProviderReturns(page)
    \/ ProviderFails
    \/ HandleResponse

Spec == Init /\ [][Next]_vars

\* ------------------------------------------------- download: properties

RECURSIVE ConcatPages(_)
ConcatPages(ps) ==
    IF ps = << >> THEN << >>
    ELSE ConcatPages(SubSeq(ps, 1, Len(ps) - 1)) \o ps[Len(ps)].data

RECURSIVE SumLen(_)
SumLen(ps) ==
    IF ps = << >> THEN 0
    ELSE SumLen(SubSeq(ps, 1, Len(ps) - 1)) + Len(ps[Len(ps)].data)

NonEmptyPages(ps) == {k \in 1..Len(ps) : ps[k].data # << >>}

NoDuplicate(s) == \A i, j \in 1..Len(s) : i # j => s[i] # s[j]

Finished == pc \in {"done", "raised"}

\* the open times of S within [from, to], in ascending order
RECURSIVE Ascending(_)
Ascending(S) ==
    IF S = {} THEN << >>
    ELSE LET m == SetMin(S) IN <<m>> \o Ascending(S \ {m})

InRange(S, from, to) == Ascending({t \in S : from <= t /\ t <= to})

IsPrefix(p, s) == Len(p) <= Len(s) /\ p = SubSeq(s, 1, Len(p))

\* S is a series of the interval: its buckets are at least one step apart
SeriesOf(S) ==
    interval_ms > 0 =>
        \A a, b \in S : a < b => b - a >= interval_ms

\* every page returned so far is what a provider serving the upstream series
\* S returns: the first records (at most limit) at or after the requested
\* startTime and up to endTime, at least one when there is any
Serves(S) ==
    \A k \in 1..Len(pages) :
        LET due == InRange(S, pages[k].from, pages[k].to)
        IN  /\ IsPrefix(pages[k].data, due)
            /\ Len(pages[k].data) <= limit
            /\ due # << >> => pages[k].data # << >>

\* no record of S lies strictly between two consecutive non-empty pages
NoneSkipped(S) ==
    \A k \in 1..(Len(pages) - 1) :
        (pages[k].data # << >> /\ pages[k + 1].data # << >>) =>
            ~\E t \in S :
                /\ pages[k].data[Len(pages[k].data)] < t
                /\ t < pages[k + 1].data[1]

\* C1: every loop iteration advances the cursor: after a non-empty page the
\* next request's cursor is strictly greater than the previous request's,
\* and a page whose last open time would not advance the cursor ends the
\* download with a DataIntegrityError.
C1_ProgressOrIntegrityError ==
    [][(pc = "got" /\ resp.kind = "ok" /\ resp.data # << >>) =>
          IF resp.data[Len(resp.data)] + interval_ms > params.startTime
            THEN pc' = "loop" /\ current_time' > params.startTime
            ELSE pc' = "raised" /\ raised' = "DataIntegrityError"]_vars

\* C2: once the provider has returned an empty page or a page with fewer
\* than limit records, the download eventually ends.
C2_EventuallyReturns ==
    (resp.kind = "ok" /\ Len(resp.data) < limit) ~> Finished

\* C3: when the provider serves an upstream series with strictly increasing
\* open times, returning the records at or after the requested startTime,
\* the returned series is the concatenation of the non-empty pages, holds no
\* open time twice, and no upstream record between two consecutive pages is
\* left out.
C3_ExactConcatenation ==
    (pc = "done" /\ ~overflow) =>
        \A S \in SUBSET Times :
            (SeriesOf(S) /\ Serves(S)) =>
                /\ klines = ConcatPages(pages)
                /\ NoDuplicate(klines)
                /\ NoneSkipped(S)

\* the statement of C3 for the interval strings whose step is positive
C3_PositiveStep ==
    (pc = "done" /\ ~overflow /\ interval_ms > 0) =>
        \A S \in SUBSET Times :
            (SeriesOf(S) /\ Serves(S)) =>
                /\ klines = ConcatPages(pages)
                /\ NoDuplicate(klines)
                /\ NoneSkipped(S)

\* C4: a failed request ends the download with that RequestException: the
\* next step raises it, no further request is issued, the series gathered so
\* far is not returned and nothing happens after the raise.
C4_TransportErrorPropagates ==
    [][/\ (pc = "got" /\ resp.kind = "fail") =>
            /\ pc' = "raised"
            /\ raised' = "RequestException"
            /\ calls' = calls
            /\ klines' = klines
       /\ pc = "raised" => (pc' = "raised" /\ calls' = calls)]_vars

C4_Witness ==
    /\ pc = "raised"
    /\ raised = "RequestException"
    /\ resp.kind = "fail"
    /\ calls = 2
    /\ klines # << >>

\* C5: when the download ends on an empty page after k non-empty pages, it
\* has issued exactly k + 1 requests, never more than one in flight, and the
\* returned series is as long as the pages together.
C5_CallsAndLength ==
    ~overflow =>
        /\ calls - Len(pages) \in {0, 1}
        /\ pc \in {"loop", "done"} => calls = Len(pages)
        /\ (pc = "done" /\ pages # << >> /\ pages[Len(pages)].data = << >>) =>
              /\ NonEmptyPages(pages) = 1..(Len(pages) - 1)
              /\ calls = Cardinality(NonEmptyPages(pages)) + 1
              /\ Len(klines) = SumLen(pages)

C5_Witness ==
    /\ pc = "done"
    /\ ~overflow
    /\ calls = 3
    /\ Len(pages) = 3
    /\ Len(pages[1].data) = 2
    /\ Len(pages[2].data) = 1
    /\ pages[3].data = << >>
    /\ Len(klines) = 3
    /\ klines[1] < klines[2] /\ klines[2] < klines[3]

\* C9: parse_interval_to_ms either raises ValueError or returns a strictly
\* positive number of milliseconds, the numeric prefix times the unit factor.
C9_PositiveStep ==
    /\ pc = "raised" => raised \in {"ValueError", "RequestException"}
    /\ pc \in {"loop", "await", "got", "done"} =>
          /\ interval_ms > 0
          /\ interval_ms =
                PyInt(SubSeq(interval, 1, Len(interval) - 1)).val
                    * UnitFactor(interval[Len(interval)])

\* -------------------------------------------------------- calculate_poc

PocKline == [close : 1..MaxPrice, volume : 0..MaxVolume]

PocSeries == UNION {[1..n -> PocKline] : n \in 0..MaxLen}

\* the outer edges without the widening of a single-point range
OuterEdges_unwidened(precios) ==
    LET lo == SetMin({precios[i] : i \in 1..Len(precios)})
        hi == SetMax({precios[i] : i \in 1..Len(precios)})
    IN  [first2 |-> 2 * lo, last2 |-> 2 * hi]

\* np.histogram's outer edges, in halves of a price unit: the smallest and
\* the greatest price, moved apart by 0.5 each when they are equal
OuterEdges(precios) ==
    LET lo == SetMin({precios[i] : i \in 1..Len(precios)})
        hi == SetMax({precios[i] : i \in 1..Len(precios)})
    IN  IF lo = hi THEN [first2 |-> 2 * lo - 1, last2 |-> 2 * hi + 1]
        ELSE [first2 |-> 2 * lo, last2 |-> 2 * hi]

\* np.linspace(first, last, n + 1)[i], as a numerator over 2 * n
EdgeNum(oe, n, i) == n * oe.first2 + i * (oe.last2 - oe.first2)

\* bins closed on the right: a price on an edge counts in the bin below it
BinIndex_rightClosed(oe, n, x) ==
    LET w == oe.last2 - oe.first2
        f == ((2 * x - oe.first2) * n + w - 1) \div w
    IN  IF f = 0 THEN 0 ELSE f - 1

\* the bin np.histogram counts price x in: floor((x - first) * n / width),
\* and the last bin for the greatest price
BinIndex(oe, n, x) ==
    LET f == ((2 * x - oe.first2) * n) \div (oe.last2 - oe.first2)
    IN  IF f = n THEN n - 1 ELSE f

RECURSIVE BinCount_unweighted(_, _, _)
\* the histogram without weights: every entry counts 1
BinCount_unweighted(indices, volumenes, n) ==
    IF indices = << >> THEN [i \in 0..(n - 1) |-> 0]
    ELSE LET k == Len(indices)
             acc == BinCount_unweighted(SubSeq(indices, 1, k - 1),
                                        SubSeq(volumenes, 1, k - 1), n)
         IN  [acc EXCEPT ![indices[k]] = @ + 1]

RECURSIVE BinCount(_, _, _)
\* np.bincount(indices, weights, minlength = n): every entry's weight is
\* added to the bin its index names
BinCount(indices, volumenes, n) ==
    IF indices = << >> THEN [i \in 0..(n - 1) |-> 0]
    ELSE LET k == Len(indices)
             acc == BinCount(SubSeq(indices, 1, k - 1),
                             SubSeq(volumenes, 1, k - 1), n)
         IN  [acc EXCEPT ![indices[k]] = @ + volumenes[k]]

\* the last index holding the greatest value
ArgMax_last(h, n) ==
    LET m == SetMax({h[j] : j \in 0..(n - 1)})
    IN  SetMax({i \in 0..(n - 1) : h[i] = m})

\* np.argmax: the first index holding the greatest value
ArgMax(h, n) ==
    LET m == SetMax({h[j] : j \in 0..(n - 1)})
    IN  SetMin({i \in 0..(n - 1) : h[i] = m})

PocInit ==
    /\ poc_klines \in PocSeries
    /\ bins \in BinCounts
    /\ poc_pc = "start"
    /\ hist = << >> /\ edges = << >>
    /\ idx_poc = 0 /\ poc = [num |-> 0, den |-> 1]
    /\ FetchIdle

\* lines 85-98
CalculatePoc ==
    /\ poc_pc = "start"
    /\ IF poc_klines = << >>
         THEN /\ poc' = [num |-> 0, den |-> 1]
              /\ poc_pc' = "done"
              /\ UNCHANGED <<hist, edges, idx_poc>>
         ELSE LET precios == [i \in 1..Len(poc_klines) |-> poc_klines[i].close]
                  volumenes ==
                      [i \in 1..Len(poc_klines) |-> poc_klines[i].volume]
              IN  \E oe \in {OuterEdges(precios)} :
                    IF oe.last2 = oe.first2
                      THEN /\ poc_pc' = "raised"
                           /\ UNCHANGED <<hist, edges, idx_poc, poc>>
                      ELSE \E indices \in {[i \in 1..Len(precios) |->
                                              BinIndex(oe, bins, precios[i])]} :
                             /\ hist' = BinCount(indices, volumenes, bins)
                             /\ edges' = [i \in 0..bins |-> EdgeNum(oe, bins, i)]
                             /\ idx_poc' = ArgMax(hist', bins)
                             /\ poc' = [num |-> (edges'[idx_poc']
                                                 + edges'[idx_poc' + 1]) \div 2,
                                        den |-> 2 * bins]
                             /\ poc_pc' = "done"
    /\ UNCHANGED <<poc_klines, bins, fetchVars>>

PocNext == CalculatePoc

PocSpec == PocInit /\ [][PocNext]_vars

\* ------------------------------------------------------ POC: properties

\* the close price of kline j as a numerator over 2 * bins, like the edges
PriceNum(j) == 2 * bins * poc_klines[j].close

RECURSIVE SumVolume(_)
\* the total volume of the klines whose positions are in J
SumVolume(J) ==
    IF J = {} THEN 0
    ELSE LET j == CHOOSE x \in J : TRUE
         IN  poc_klines[j].volume + SumVolume(J \ {j})

Computed == poc_pc = "done" /\ poc_klines # << >>

Positions == DOMAIN poc_klines

\* bin i as [edges[i], edges[i+1]), the last bin also holding its upper edge
InBin(i, x) ==
    /\ edges[i] <= x
    /\ x < edges[i + 1] \/ (i = bins - 1 /\ x = edges[bins])

\* bin i as (edges[i], edges[i+1]], the first bin also holding its lower edge
InBinRightClosed(i, x) ==
    /\ x <= edges[i + 1]
    /\ edges[i] < x \/ (i = 0 /\ x = edges[0])

\* for every kline, the bins [edges[i], edges[i+1]) that hold its price
Place == [j \in Positions |-> {i \in 0..(bins - 1) : InBin(i, PriceNum(j))}]

\* the bin that holds every kline of J, or -1 when they are in several
BinOf(place, J) ==
    LET B == UNION {place[j] : j \in J}
    IN  IF Cardinality(B) = 1 THEN CHOOSE i \in B : TRUE ELSE 0 - 1

ClosePrices == {poc_klines[j].close : j \in Positions}

UpTo(t) == {j \in Positions : poc_klines[j].close <= t}

\* the splits of the series into a lower and an upper price cluster, either
\* of them taken as A
Clusterings ==
    UNION {{[A |-> UpTo(t), B |-> Positions \ UpTo(t)],
            [A |-> Positions \ UpTo(t), B |-> UpTo(t)]} :
           t \in ClosePrices \ {SetMax(ClosePrices)}}

\* C6 as stated: with two price clusters A and B, A of strictly greater
\* total volume, the POC lies inside the price range of A for every bins
\* from 50 to 1000.
C6_InsideClusterRange ==
    (Computed /\ bins >= 50 /\ bins <= 1000) =>
        \A c \in Clusterings :
            SumVolume(c.A) > SumVolume(c.B) =>
                /\ \E a \in c.A : poc_klines[a].close * poc.den <= poc.num
                /\ \E a \in c.A : poc.num <= poc_klines[a].close * poc.den

\* C6 amended: when each of the two clusters lies within one bin, the two
\* bins differ and A's bin holds strictly more volume, the POC is the
\* midpoint of the bin that holds A.
C6_MidpointOfClusterBin ==
    Computed =>
        \A place \in {Place} :
            \A c \in Clusterings :
                \A bA \in {BinOf(place, c.A)} :
                    \A bB \in {BinOf(place, c.B)} :
                        (/\ bA >= 0 /\ bB >= 0 /\ bA # bB
                         /\ SumVolume(c.A) > SumVolume(c.B)) =>
                            /\ idx_poc = bA
                            /\ 2 * poc.num = edges[bA] + edges[bA + 1]
                            /\ poc.den = 2 * bins

C6_Witness ==
    /\ Computed
    /\ bins = DefaultBins
    /\ \E c \in Clusterings :
          /\ Cardinality(c.A) = 2 /\ Cardinality(c.B) = 1
          /\ BinOf(Place, c.A) >= 0 /\ BinOf(Place, c.B) >= 0
          /\ BinOf(Place, c.A) # BinOf(Place, c.B)
          /\ SumVolume(c.A) > SumVolume(c.B)
          /\ SumVolume(c.B) > 0
          /\ idx_poc = BinOf(Place, c.A)
          /\ \A a \in c.A : poc.num # poc_klines[a].close * poc.den

\* C7: the POC is the midpoint of the bin with the greatest accumulated
\* volume, and of the lowest-indexed such bin when several hold it.
C7_FirstGreatestBin ==
    Computed =>
        /\ idx_poc \in 0..(bins - 1)
        /\ \A j \in 0..(bins - 1) : hist[j] <= hist[idx_poc]
        /\ \A j \in 0..(idx_poc - 1) : hist[j] < hist[idx_poc]
        /\ 2 * poc.num = edges[idx_poc] + edges[idx_poc + 1]
        /\ poc.den = 2 * bins

C7_Witness ==
    /\ Computed
    /\ \E i, j \in 0..(bins - 1) :
          /\ i < j
          /\ hist[i] = hist[j]
          /\ hist[i] > 0
          /\ \A k \in 0..(bins - 1) : hist[k] <= hist[i]
          /\ idx_poc = i

AllPricesEqual ==
    \A i, j \in Positions : poc_klines[i].close = poc_klines[j].close

C10_EdgeToLowerBin ==
    Computed =>
        /\ \A j \in Positions :
              Cardinality({i \in 0..(bins - 1) :
                              InBinRightClosed(i, PriceNum(j))}) = 1
        /\ \A i \in 0..(bins - 1) :
              hist[i] = SumVolume({j \in Positions :
                                      InBinRightClosed(i, PriceNum(j))})

\* C10 amended: every volume is added to exactly one bin, a price on an
\* interior edge to the higher-indexed of the two bins it separates, the
\* greatest price to the last bin.
C10_EdgeToHigherBin ==
    Computed =>
        \A place \in {Place} :
            /\ \A j \in Positions : Cardinality(place[j]) = 1
            /\ \A i \in 0..(bins - 1) :
                  hist[i] = SumVolume({j \in Positions : i \in place[j]})

C10_Witness ==
    /\ Computed
    /\ \E j \in Positions, i \in 1..(bins - 1) :
          /\ PriceNum(j) = edges[i]
          /\ poc_klines[j].volume > 0
          /\ hist[i] = poc_klines[j].volume
          /\ hist[i - 1] = 0
    /\ \E j \in Positions :
          /\ PriceNum(j) = edges[bins]
          /\ poc_klines[j].volume > 0
          /\ hist[bins - 1] = poc_klines[j].volume

\* The call is synchronous: the loop always takes its next step, and a
\* request in flight always ends (with a page or with a failure).
FairSpec == Init /\ [][Next]_vars /\ WF_vars(Next)

====
